---- MODULE Spec2Model ----
(***************************************************************************)
(* Model of youtube-to-notion-howto: the markdown-to-Notion-block          *)
(* conversion of NotionService (src/src/services/notion.ts) and the        *)
(* webhook handler (src/src/index.ts).                                     *)
(*                                                                         *)
(* A JavaScript string is modelled as a sequence of one-character strings. *)
(***************************************************************************)
EXTENDS Integers, Sequences, FiniteSets, TLC

\* ------------------------------------------------------------------ bounds
\* Longest text handed to parseRichText by the inline specification.
MaxTextLen == 9
\* Most lines of a document handed to markdownToBlocks.
MaxLines == 4
\* Most lines of a document made of the lines that try the block prefixes.
MaxPrefixLines == 3
\* Most lines of a document made of fences and lines to put between them.
MaxCodeLines == 7
\* Most lines of the markdown handed to createPage.
MaxPageLines == 3
\* Most lines of a document of lines with little or nothing after the prefix.
MaxRunLines == 3

\* ------------------------------------------------------- string primitives
\* String.prototype.trim's white space, as far as the model's alphabet goes.
IsWs(c) == c \in {" ", "\t", "\r", "\n"}

RECURSIVE TrimStart(_)
TrimStart(s) ==
    IF s = <<>> THEN <<>>
    ELSE IF IsWs(Head(s)) THEN TrimStart(Tail(s)) ELSE s

RECURSIVE TrimEnd(_)
TrimEnd(s) ==
    IF s = <<>> THEN <<>>
    ELSE IF IsWs(s[Len(s)]) THEN TrimEnd(SubSeq(s, 1, Len(s) - 1)) ELSE s

Trim(s) == TrimEnd(TrimStart(s))

StartsWith(s, p) == Len(s) >= Len(p) /\ SubSeq(s, 1, Len(p)) = p

EndsWith(s, p) == Len(s) >= Len(p) /\ SubSeq(s, Len(s) - Len(p) + 1, Len(s)) = p

\* s.substring(n): the characters from 0-based index n on.
Substring(s, n) == IF n >= Len(s) THEN <<>> ELSE SubSeq(s, n + 1, Len(s))

\* s.slice(n, -n): n characters dropped at each end.
SliceBoth(s, n) == IF Len(s) <= 2 * n THEN <<>> ELSE SubSeq(s, n + 1, Len(s) - n)

\* String.prototype.toLowerCase on the model's alphabet.
LowerChar(c) ==
    CASE c = "P" -> "p"
      [] c = "A" -> "a"
      [] OTHER -> c

ToLowerCase(s) == [i \in 1..Len(s) |-> LowerChar(s[i])]

\* Array.prototype.join.
RECURSIVE Join(_, _)
Join(ss, sep) ==
    IF ss = <<>> THEN <<>>
    ELSE IF Len(ss) = 1 THEN ss[1]
    ELSE ss[1] \o sep \o Join(Tail(ss), sep)

\* s.split(sep) for a one-character separator: never empty, "" gives [""].
RECURSIVE SplitOn(_, _)
SplitOn(s, c) ==
    IF \A i \in 1..Len(s) : s[i] /= c THEN <<s>>
    ELSE LET k == CHOOSE i \in 1..Len(s) :
                      s[i] = c /\ \A j \in 1..(i - 1) : s[j] /= c
         IN <<SubSeq(s, 1, k - 1)>> \o SplitOn(SubSeq(s, k + 1, Len(s)), c)

\* All sequences over S of length at most n.
SeqsUpTo(S, n) == UNION {[1..k -> S] : k \in 0..n}

\* ------------------------------------------------------------ parseRichText
Star == <<"*">>
StarStar == <<"*", "*">>
\* The backtick, which a TLA+ string cannot hold, is written as the character "'".
BT == "'"

Tick == <<BT>>

\* A faulty variant of regex: the italic alternative tried before the bold one.
regexItalicFirst == <<Star, StarStar, Tick>>

\* The alternatives of the regex /(**X**|*X*|(backtick)X(backtick))/g, in the
\* order tried: each is a delimiter, a lazy .*?, and the same delimiter again.
regex == <<StarStar, Star, Tick>>

\* The regex dot: any character but a line terminator.
IsDot(c) == c \notin {"\n", "\r"}

At(s, p, d) == p >= 1 /\ p + Len(d) - 1 <= Len(s) /\ SubSeq(s, p, p + Len(d) - 1) = d

\* The lazy .*? followed by delimiter d, from position q: the first position
\* where d closes, 0 when the alternative fails.
RECURSIVE LazyClose(_, _, _)
LazyClose(s, q, d) ==
    IF q + Len(d) - 1 > Len(s) THEN 0
    ELSE IF At(s, q, d) THEN q
    ELSE IF IsDot(s[q]) THEN LazyClose(s, q + 1, d)
    ELSE 0

\* One alternative tried at position p: the last position of its match, or 0.
Delimited(s, p, d) ==
    IF ~At(s, p, d) THEN 0
    ELSE LET q == LazyClose(s, p + Len(d), d)
         IN IF q = 0 THEN 0 ELSE q + Len(d) - 1

\* The whole alternation tried at position p: the first alternative that
\* matches decides.
MatchEnd(s, p) ==
    LET hits == {k \in 1..Len(regex) : Delimited(s, p, regex[k]) /= 0}
    IN IF hits = {} THEN 0
       ELSE Delimited(s, p, regex[CHOOSE k \in hits : \A j \in hits : k <= j])

\* text.split(regex) with its capturing group: unmatched text and matches
\* alternate, unmatched text first and last (empty where nothing lies between).
RECURSIVE SplitFrom(_, _)
SplitFrom(s, p) ==
    LET starts == {m \in p..Len(s) : MatchEnd(s, m) /= 0}
    IN IF starts = {} THEN <<Substring(s, p - 1)>>
       ELSE LET m == CHOOSE x \in starts : \A y \in starts : x <= y
                e == MatchEnd(s, m)
            IN <<SubSeq(s, p, m - 1), SubSeq(s, m, e)>> \o SplitFrom(s, e + 1)

SplitRegex(s) == SplitFrom(s, 1)

Run(style, content) == [style |-> style, content |-> content]

\* A faulty variant of RunOfPart: the italic branch is missing.
RunOfPartNoItalic(part) ==
    IF StartsWith(part, StarStar) /\ EndsWith(part, StarStar) /\ Len(part) > 4
    THEN Run("Bold", SliceBoth(part, 2))
    ELSE IF StartsWith(part, Tick) /\ EndsWith(part, Tick) /\ Len(part) > 2
    THEN Run("Code", SliceBoth(part, 1))
    ELSE Run("Plain", part)

\* The branch of the loop body (lines 26-50) a non-empty part takes.
RunOfPart(part) ==
    IF StartsWith(part, StarStar) /\ EndsWith(part, StarStar) /\ Len(part) > 4
    THEN Run("Bold", SliceBoth(part, 2))
    ELSE IF StartsWith(part, Star) /\ EndsWith(part, Star) /\ Len(part) > 2
    THEN Run("Italic", SliceBoth(part, 1))
    ELSE IF StartsWith(part, Tick) /\ EndsWith(part, Tick) /\ Len(part) > 2
    THEN Run("Code", SliceBoth(part, 1))
    ELSE Run("Plain", part)

\* One iteration of the loop over the parts: an empty part is skipped.
\* A faulty variant of PushPart: empty parts are not skipped.
PushPartKeepEmpty(rt, part) == Append(rt, RunOfPart(part))

\* if (!part) continue; ... richText.push(...)
PushPart(rt, part) == IF part = <<>> THEN rt ELSE Append(rt, RunOfPart(part))

RECURSIVE PushParts(_, _)
PushParts(rt, ps) ==
    IF ps = <<>> THEN rt ELSE PushParts(PushPart(rt, Head(ps)), Tail(ps))

parseRichText(text) == PushParts(<<>>, SplitRegex(text))

\* --------------------------------------------------------- markdownToBlocks
Fence == <<BT, BT, BT>>

PlainText == <<"p", "l", "a", "i", "n", " ", "t", "e", "x", "t">>

\* The rich_text of a heading or a code block: one text object, no annotations.
Literal(content) == <<Run("Plain", content)>>

\* A faulty variant of IsFence: the line is not trimmed first.
IsFenceUntrimmed(line) == StartsWith(line, Fence)

\* line.trim().startsWith(three backticks)
IsFence(line) == StartsWith(Trim(line), Fence)

\* A faulty variant of OpenLanguage: the tag is not trimmed.
OpenLanguageUntrimmed(line) ==
    LET lang == Substring(Trim(line), 3)
    IN IF lang = <<>> THEN PlainText ELSE lang

\* The language captured at an opening fence (lines 85-86).
OpenLanguage(line) ==
    LET lang == Trim(Substring(Trim(line), 3))
    IN IF lang = <<>> THEN PlainText ELSE lang

\* The block pushed at a closing fence (lines 71-78).
CodeBlockOf(content, lang) ==
    [type |-> "code",
     rich_text |-> Literal(Join(content, <<"\n">>)),
     language |-> IF ToLowerCase(lang) = <<>> THEN PlainText ELSE ToLowerCase(lang)]

\* A faulty variant of Skipped: blank lines are not skipped.
SkippedNever(trimmed) == FALSE

\* if (!trimmed) continue
Skipped(trimmed) == trimmed = <<>>

IsDigit(c) == c \in {"0", "1", "2", "3", "4", "5", "6", "7", "8", "9"}

\* The length of the match of /^\d+\.\s/ on the trimmed line, 0 without a match.
RECURSIVE DigitsLen(_)
DigitsLen(s) == IF s /= <<>> /\ IsDigit(Head(s)) THEN 1 + DigitsLen(Tail(s)) ELSE 0

\* A faulty variant of NumberedPrefixLen: the prefix is taken to be three
\* characters long whatever the number.
NumberedPrefixLenFixed(trimmed) ==
    LET d == DigitsLen(trimmed)
    IN IF d >= 1 /\ Len(trimmed) >= d + 2 /\ trimmed[d + 1] = "." /\ IsWs(trimmed[d + 2])
       THEN 3 ELSE 0

NumberedPrefixLen(trimmed) ==
    LET d == DigitsLen(trimmed)
    IN IF d >= 1 /\ Len(trimmed) >= d + 2 /\ trimmed[d + 1] = "." /\ IsWs(trimmed[d + 2])
       THEN d + 2 ELSE 0

Block(type, rich_text) == [type |-> type, rich_text |-> rich_text]

\* A faulty variant of LineBlock: the heading_3 branch is missing.
LineBlockNoHeading3(trimmed) ==
    IF StartsWith(trimmed, <<"#", " ">>)
    THEN Block("heading_1", Literal(Substring(trimmed, 2)))
    ELSE IF StartsWith(trimmed, <<"#", "#", " ">>)
    THEN Block("heading_2", Literal(Substring(trimmed, 3)))
    ELSE IF StartsWith(trimmed, <<"-", " ">>)
    THEN Block("bulleted_list_item", parseRichText(Substring(trimmed, 2)))
    ELSE IF NumberedPrefixLen(trimmed) > 0
    THEN Block("numbered_list_item",
               parseRichText(Substring(trimmed, NumberedPrefixLen(trimmed))))
    ELSE IF StartsWith(trimmed, <<">", " ">>)
    THEN Block("quote", parseRichText(Substring(trimmed, 2)))
    ELSE Block("paragraph", parseRichText(trimmed))

\* The block pushed for a non-blank trimmed line outside a code block
\* (lines 99-156).
LineBlock(trimmed) ==
    IF StartsWith(trimmed, <<"#", " ">>)
    THEN Block("heading_1", Literal(Substring(trimmed, 2)))
    ELSE IF StartsWith(trimmed, <<"#", "#", " ">>)
    THEN Block("heading_2", Literal(Substring(trimmed, 3)))
    ELSE IF StartsWith(trimmed, <<"#", "#", "#", " ">>)
    THEN Block("heading_3", Literal(Substring(trimmed, 4)))
    ELSE IF StartsWith(trimmed, <<"-", " ">>)
    THEN Block("bulleted_list_item", parseRichText(Substring(trimmed, 2)))
    ELSE IF NumberedPrefixLen(trimmed) > 0
    THEN Block("numbered_list_item",
               parseRichText(Substring(trimmed, NumberedPrefixLen(trimmed))))
    ELSE IF StartsWith(trimmed, <<">", " ">>)
    THEN Block("quote", parseRichText(Substring(trimmed, 2)))
    ELSE Block("paragraph", parseRichText(trimmed))

\* A faulty variant of Returned: an open code block is flushed at the end.
ReturnedFlushing(bs, inCode, content, lang) ==
    IF inCode THEN Append(bs, CodeBlockOf(content, lang)) ELSE bs

\* return blocks (line 158): what is buffered for an open code block is dropped.
Returned(bs, inCode, content, lang) == bs

\* The locals of markdownToBlocks as the loop starts (lines 61-64).
ScanStart ==
    [blocks |-> <<>>, inCodeBlock |-> FALSE, codeBlockLanguage |-> PlainText,
     codeBlockContent |-> <<>>]

\* One iteration of the loop over the lines (lines 66-157).
ScanLine(st, line) ==
    IF IsFence(line)
    THEN IF st.inCodeBlock
         THEN [blocks |-> Append(st.blocks,
                                 CodeBlockOf(st.codeBlockContent, st.codeBlockLanguage)),
               inCodeBlock |-> FALSE,
               codeBlockLanguage |-> PlainText,
               codeBlockContent |-> <<>>]
         ELSE [st EXCEPT !.inCodeBlock = TRUE, !.codeBlockLanguage = OpenLanguage(line)]
    ELSE IF st.inCodeBlock
    THEN [st EXCEPT !.codeBlockContent = Append(@, line)]
    ELSE IF Skipped(Trim(line)) THEN st
    ELSE [st EXCEPT !.blocks = Append(@, LineBlock(Trim(line)))]

RECURSIVE ScanLines(_, _)
ScanLines(st, ls) ==
    IF ls = <<>> THEN st ELSE ScanLines(ScanLine(st, Head(ls)), Tail(ls))

\* markdownToBlocks as createPage calls it: the whole scan and its return.
markdownToBlocks(md) ==
    LET st == ScanLines(ScanStart, SplitOn(md, "\n"))
    IN Returned(st.blocks, st.inCodeBlock, st.codeBlockContent, st.codeBlockLanguage)

\* A faulty variant of Promoted: a leading heading_1 block is taken as the
\* title whatever the first line of the markdown is.
PromotedAnyLeadingHeading(title, md, kids) ==
    IF kids /= <<>> /\ kids[1].type = "heading_1"
    THEN [pageTitle |-> kids[1].rich_text[1].content, children |-> Tail(kids)]
    ELSE [pageTitle |-> title, children |-> kids]

\* The page title and the children sent (createPage, lines 182-190).
Promoted(title, md, kids) ==
    LET firstLine == Trim(SplitOn(md, "\n")[1])
    IN IF StartsWith(firstLine, <<"#", " ">>)
       THEN [pageTitle |-> Substring(firstLine, 2),
             children |-> IF kids /= <<>> /\ kids[1].type = "heading_1"
                          THEN Tail(kids) ELSE kids]
       ELSE [pageTitle |-> title, children |-> kids]

\* ------------------------------------------------------------------- state
VARIABLES
    \* parseRichText: its argument, the split parts, the loop index, the result
    text, parts, pidx, richText, rpc,
    \* markdownToBlocks: its argument, the lines, the loop index, the locals
    markdown, lines, pos, blocks, inCodeBlock, codeBlockLanguage,
    codeBlockContent, result, mpc,
    \* the webhook: the configured secret and default parent, the request in
    \* hand, the handler's position and locals, the calls made on the
    \* services for it and the responses sent to it
    webhookSecret, defaultParentId, req, hpc, handled, transcript,
    howToContent, notionResponse, caught, calls, responses,
    \* createPage: its arguments, its locals, the request sent to Notion and
    \* its position
    title, contentMarkdown, parentConfig, children, pageTitle, request, cpc

richVars == <<text, parts, pidx, richText, rpc>>
mdVars == <<markdown, lines, pos, blocks, inCodeBlock, codeBlockLanguage,
            codeBlockContent, result, mpc>>
cfgVars == <<webhookSecret, defaultParentId>>
reqVars == <<req, hpc, handled, transcript, howToContent, notionResponse,
             caught, calls, responses>>
hookVars == <<cfgVars, reqVars>>
pageVars == <<title, contentMarkdown, parentConfig, children, pageTitle, request, cpc>>
vars == <<richVars, mdVars, hookVars, pageVars>>

NoPageRequest == [sent |-> FALSE, parent |-> "none", titleProperty |-> "none",
                  title |-> <<>>, children |-> <<>>]

PageIdle ==
    /\ title = <<>> /\ contentMarkdown = <<>> /\ parentConfig = "none"
    /\ children = <<>> /\ pageTitle = <<>> /\ request = NoPageRequest
    /\ cpc = "idle"

NoRequest == [present |-> FALSE, authorization |-> [present |-> FALSE, value |-> <<>>],
              youtube_url |-> FALSE, notion_parent |-> "none"]

HookIdle ==
    /\ webhookSecret = <<>> /\ defaultParentId = FALSE /\ req = NoRequest
    /\ hpc = "off" /\ handled = FALSE /\ transcript = FALSE
    /\ howToContent = FALSE /\ notionResponse = FALSE /\ caught = "none"
    /\ calls = <<>> /\ responses = <<>>

RichIdle ==
    /\ text = <<>> /\ parts = <<>> /\ pidx = 0 /\ richText = <<>> /\ rpc = "idle"

MdIdle ==
    /\ markdown = <<>> /\ lines = <<>> /\ pos = 0 /\ blocks = <<>>
    /\ inCodeBlock = FALSE /\ codeBlockLanguage = PlainText
    /\ codeBlockContent = <<>> /\ result = <<>> /\ mpc = "idle"

\* ---------------------------------------------- parseRichText, step by step
\* The characters of the texts tried: both delimiters and a letter.
TextAlphabet == {"*", BT, "a"}

Texts == SeqsUpTo(TextAlphabet, MaxTextLen)

InitRich ==
    /\ text \in Texts
    /\ parts = <<>> /\ pidx = 0 /\ richText = <<>> /\ rpc = "call"
    /\ MdIdle
    /\ HookIdle
    /\ PageIdle

\* const parts = currentText.split(regex)
RichSplit ==
    /\ rpc = "call"
    /\ parts' = SplitRegex(text)
    /\ pidx' = 1
    /\ richText' = <<>>
    /\ rpc' = "loop"
    /\ UNCHANGED <<text, mdVars, hookVars, pageVars>>

\* for (const part of parts) { ... }
RichPart ==
    /\ rpc = "loop"
    /\ pidx <= Len(parts)
    /\ richText' = PushPart(richText, parts[pidx])
    /\ pidx' = pidx + 1
    /\ UNCHANGED <<text, parts, rpc, mdVars, hookVars, pageVars>>

\* return richText
RichReturn ==
    /\ rpc = "loop"
    /\ pidx > Len(parts)
    /\ rpc' = "done"
    /\ UNCHANGED <<text, parts, pidx, richText, mdVars, hookVars, pageVars>>

NextRich == RichSplit \/ RichPart \/ RichReturn

SpecRich == InitRich /\ [][NextRich]_vars

\* -------------------------------------------- markdownToBlocks, step by step
\* The lines documents are made of: blank lines, fences with and without a
\* language, and one line for each kind of block.
LineSet ==
    { <<>>,
      <<" ">>,
      Fence,
      <<" ">> \o Fence \o <<" ", "P", " ">>,
      <<"#", " ", "a">>,
      <<"#", "#", " ", "a">>,
      <<"#", "#", "#", " ", "a">>,
      <<"-", " ", "*", "a", "*">>,
      <<"1", ".", " ", "a">>,
      <<">", " ", "a">>,
      <<" ", "a", " ">> }

Documents == {Join(ls, <<"\n">>) : ls \in SeqsUpTo(LineSet, MaxLines) \ {<<>>}}

InitMd ==
    /\ markdown \in Documents
    /\ lines = <<>> /\ pos = 0 /\ blocks = <<>>
    /\ inCodeBlock = FALSE /\ codeBlockLanguage = PlainText
    /\ codeBlockContent = <<>> /\ result = <<>> /\ mpc = "call"
    /\ RichIdle
    /\ HookIdle
    /\ PageIdle

\* Lines 60-64.
MdSplit ==
    /\ mpc = "call"
    /\ lines' = SplitOn(markdown, "\n")
    /\ pos' = 1
    /\ blocks' = <<>>
    /\ inCodeBlock' = FALSE
    /\ codeBlockLanguage' = PlainText
    /\ codeBlockContent' = <<>>
    /\ mpc' = "loop"
    /\ UNCHANGED <<markdown, result, richVars, hookVars, pageVars>>

InLoop == mpc = "loop" /\ pos >= 1 /\ pos <= Len(lines)

\* A fence line outside a code block opens one (lines 83-88).
MdFenceOpen ==
    /\ InLoop
    /\ IsFence(lines[pos])
    /\ ~inCodeBlock
    /\ inCodeBlock' = TRUE
    /\ codeBlockLanguage' = OpenLanguage(lines[pos])
    /\ pos' = pos + 1
    /\ UNCHANGED <<markdown, lines, blocks, codeBlockContent, result, mpc, richVars, hookVars, pageVars>>

\* A faulty variant of MdFenceClose: the buffered lines are not reset.
MdFenceCloseNoReset ==
    /\ InLoop
    /\ IsFence(lines[pos])
    /\ inCodeBlock
    /\ blocks' = Append(blocks, CodeBlockOf(codeBlockContent, codeBlockLanguage))
    /\ inCodeBlock' = FALSE
    /\ codeBlockLanguage' = PlainText
    /\ pos' = pos + 1
    /\ UNCHANGED <<markdown, lines, codeBlockContent, result, mpc, richVars, hookVars, pageVars>>

\* A fence line inside a code block closes it (lines 69-82, 88).
MdFenceClose ==
    /\ InLoop
    /\ IsFence(lines[pos])
    /\ inCodeBlock
    /\ blocks' = Append(blocks, CodeBlockOf(codeBlockContent, codeBlockLanguage))
    /\ inCodeBlock' = FALSE
    /\ codeBlockContent' = <<>>
    /\ codeBlockLanguage' = PlainText
    /\ pos' = pos + 1
    /\ UNCHANGED <<markdown, lines, result, mpc, richVars, hookVars, pageVars>>

\* Any other line inside a code block is buffered (lines 91-94).
MdCodeLine ==
    /\ InLoop
    /\ ~IsFence(lines[pos])
    /\ inCodeBlock
    /\ codeBlockContent' = Append(codeBlockContent, lines[pos])
    /\ pos' = pos + 1
    /\ UNCHANGED <<markdown, lines, blocks, inCodeBlock, codeBlockLanguage,
                   result, mpc, richVars, hookVars, pageVars>>

\* A blank line outside a code block is skipped (lines 96-97).
MdBlankLine ==
    /\ InLoop
    /\ ~IsFence(lines[pos])
    /\ ~inCodeBlock
    /\ Skipped(Trim(lines[pos]))
    /\ pos' = pos + 1
    /\ UNCHANGED <<markdown, lines, blocks, inCodeBlock, codeBlockLanguage,
                   codeBlockContent, result, mpc, richVars, hookVars, pageVars>>

\* Any other line outside a code block gives one block (lines 99-156).
MdBlockLine ==
    /\ InLoop
    /\ ~IsFence(lines[pos])
    /\ ~inCodeBlock
    /\ ~Skipped(Trim(lines[pos]))
    /\ blocks' = Append(blocks, LineBlock(Trim(lines[pos])))
    /\ pos' = pos + 1
    /\ UNCHANGED <<markdown, lines, inCodeBlock, codeBlockLanguage,
                   codeBlockContent, result, mpc, richVars, hookVars, pageVars>>

\* return blocks (line 158)
MdReturn ==
    /\ mpc = "loop"
    /\ pos > Len(lines)
    /\ result' = Returned(blocks, inCodeBlock, codeBlockContent, codeBlockLanguage)
    /\ mpc' = "done"
    /\ UNCHANGED <<markdown, lines, pos, blocks, inCodeBlock, codeBlockLanguage,
                   codeBlockContent, richVars, hookVars, pageVars>>

NextMd ==
    \/ MdSplit \/ MdFenceOpen \/ MdFenceClose \/ MdCodeLine
    \/ MdBlankLine \/ MdBlockLine \/ MdReturn

SpecMd == InitMd /\ [][NextMd]_vars

\* Lines that try the block prefixes: numbered prefixes with one and two
\* digits, followed by a space, a tab, two spaces, a letter or nothing; the
\* other prefixes followed by nothing; a fence and a blank line.
SettingsLine == <<"1", ".", " ", "O", "p", "e", "n", " ", "t", "h", "e", " ", "*", "*", "S", "e", "t", "t", "i", "n", "g", "s", "*", "*", " ", "m", "e", "n", "u">>

PrefixLineSet ==
    { SettingsLine,
      <<"1", "2", ".", " ", "a">>,
      <<"1", ".", "\t", "a">>,
      <<"1", ".", " ", " ", "a">>,
      <<"1", ".", "a">>,
      <<"1", " ", ".", " ", "a">>,
      <<"1", ".", " ">>,
      <<"#", " ">>,
      <<"-", " ">>,
      <<">", " ", "\t">>,
      <<"-", " ", "1", ".", " ", "a">>,
      Fence,
      <<>> }

PrefixDocuments ==
    {Join(ls, <<"\n">>) : ls \in SeqsUpTo(PrefixLineSet, MaxPrefixLines) \ {<<>>}}

InitMdPrefix ==
    /\ markdown \in PrefixDocuments
    /\ lines = <<>> /\ pos = 0 /\ blocks = <<>>
    /\ inCodeBlock = FALSE /\ codeBlockLanguage = PlainText
    /\ codeBlockContent = <<>> /\ result = <<>> /\ mpc = "call"
    /\ RichIdle
    /\ HookIdle
    /\ PageIdle

SpecPrefix == InitMdPrefix /\ [][NextMd]_vars

\* Lines to put between fences: one with white space at both ends, a blank
\* one, one that would be a heading outside a code block.
CodeLineSet ==
    { Fence,
      <<" ", "a", " ">>,
      <<>>,
      <<"#", " ", "b">> }

CodeDocuments ==
    {Join(ls, <<"\n">>) : ls \in SeqsUpTo(CodeLineSet, MaxCodeLines) \ {<<>>}}

InitMdCode ==
    /\ markdown \in CodeDocuments
    /\ lines = <<>> /\ pos = 0 /\ blocks = <<>>
    /\ inCodeBlock = FALSE /\ codeBlockLanguage = PlainText
    /\ codeBlockContent = <<>> /\ result = <<>> /\ mpc = "call"
    /\ RichIdle
    /\ HookIdle
    /\ PageIdle

SpecCode == InitMdCode /\ [][NextMd]_vars

\* Lines with little or nothing after the prefix: each prefix alone, each
\* prefix before delimiters that enclose nothing, delimiters alone, a fence.
RunLineSet ==
    { <<"#", " ">>, <<"#", "#", " ">>, <<"#", "#", "#", " ">>,
      <<"-", " ">>, <<"1", ".", " ">>, <<">", " ", "\t">>,
      <<"-", " ", "*", "*", "*", "*">>,
      <<"-", " ", "*", "*">>,
      <<"1", ".", " ", BT, BT>>,
      <<"1", ".", " ", " ", "a">>,
      <<">", " ", "*", "a", "*">>,
      <<"*", "*", "*", "*">>,
      <<"#", " ", " ", "a">>,
      Fence,
      <<>> }

RunDocuments ==
    {Join(ls, <<"\n">>) : ls \in SeqsUpTo(RunLineSet, MaxRunLines) \ {<<>>}}

InitMdRuns ==
    /\ markdown \in RunDocuments
    /\ lines = <<>> /\ pos = 0 /\ blocks = <<>>
    /\ inCodeBlock = FALSE /\ codeBlockLanguage = PlainText
    /\ codeBlockContent = <<>> /\ result = <<>> /\ mpc = "call"
    /\ RichIdle
    /\ HookIdle
    /\ PageIdle

\* parseRichText on every text and markdownToBlocks on every such document.
SpecRuns == (InitRich \/ InitMdRuns) /\ [][NextRich \/ NextMd]_vars

\* ---------------------------------------------------------------- webhook
\* Longest text after "Bearer " in the Authorization headers tried.
MaxTokenLen == 3

BearerSp == <<"B", "e", "a", "r", "e", "r", " ">>

\* The secrets the service may be configured with (WEBHOOK_SECRET, trimmed):
\* one and two characters, and one with a space inside.
Secrets == {<<"k">>, <<"k", "x">>, <<"k", " ", "x">>}

\* The Authorization headers tried: none, the empty one, a bare secret,
\* another scheme, the scheme alone, and "Bearer " followed by any short
\* text over the secret's characters and the space. A header value reaches
\* the application without white space at its end.
Headers ==
    {[present |-> FALSE, value |-> <<>>]}
    \cup {[present |-> TRUE, value |-> v] :
             v \in {<<>>, <<"k">>, <<"B", "a", "s", "i", "c", " ", "k">>,
                    <<"B", "e", "a", "r", "e", "r">>,
                    <<"B", "e", "a", "r", "e", "r", "k">>}}
    \cup {[present |-> TRUE, value |-> BearerSp \o t] :
             t \in {u \in SeqsUpTo({"k", "x", " "}, MaxTokenLen) :
                       u /= <<>> /\ u[Len(u)] /= " "}}

Requests ==
    [present : {TRUE}, authorization : Headers, youtube_url : BOOLEAN,
     notion_parent : {"none", "with id", "without id"}]

\* validateAuth (lines 16-30): "next", or the 401 it answers.
validateAuth(authHeader, secret) ==
    IF ~authHeader.present \/ authHeader.value = <<>>
          \/ ~StartsWith(authHeader.value, BearerSp)
    THEN "Missing or invalid Authorization header"
    ELSE LET token == SplitOn(authHeader.value, " ")[2]
         IN IF token /= secret THEN "Invalid secret token" ELSE "next"

\* parentConfig.id (lines 51-54): that of notion_parent when the request
\* carries one, else the configured default.
HasParentId(r, defaultId) ==
    IF r.notion_parent = "none" THEN defaultId ELSE r.notion_parent = "with id"

Response(status, body) == [status |-> status, body |-> body]

ErrorBody == [status |-> "error", page |-> FALSE]

InitHook ==
    /\ webhookSecret \in Secrets
    /\ defaultParentId \in BOOLEAN
    /\ req = NoRequest
    /\ hpc = "listening" /\ handled = FALSE /\ transcript = FALSE
    /\ howToContent = FALSE /\ notionResponse = FALSE /\ caught = "none"
    /\ calls = <<>> /\ responses = <<>>
    /\ RichIdle
    /\ MdIdle
    /\ PageIdle

\* A POST to /webhook/youtube-to-notion arrives.
HookReceive ==
    /\ hpc \in {"listening", "done"}
    /\ req' \in Requests
    /\ hpc' = "auth"
    /\ handled' = FALSE /\ transcript' = FALSE /\ howToContent' = FALSE
    /\ notionResponse' = FALSE /\ caught' = "none"
    /\ calls' = <<>> /\ responses' = <<>>
    /\ UNCHANGED <<cfgVars, richVars, mdVars, pageVars>>

\* The middleware passes the request on (line 29).
HookAuthNext ==
    /\ hpc = "auth"
    /\ validateAuth(req.authorization, webhookSecret) = "next"
    /\ hpc' = "handler"
    /\ handled' = TRUE
    /\ UNCHANGED <<cfgVars, req, transcript, howToContent, notionResponse, caught,
                   calls, responses, richVars, mdVars, pageVars>>

\* The middleware answers 401 (lines 20, 26).
HookAuthReject ==
    /\ hpc = "auth"
    /\ validateAuth(req.authorization, webhookSecret) /= "next"
    /\ responses' = Append(responses, Response(401, ErrorBody))
    /\ hpc' = "done"
    /\ UNCHANGED <<cfgVars, req, handled, transcript, howToContent, notionResponse,
                   caught, calls, richVars, mdVars, pageVars>>

\* The handler answers 400 without youtube_url (lines 35-37).
HookMissingUrl ==
    /\ hpc = "handler"
    /\ ~req.youtube_url
    /\ responses' = Append(responses, Response(400, ErrorBody))
    /\ hpc' = "done"
    /\ UNCHANGED <<cfgVars, req, handled, transcript, howToContent, notionResponse,
                   caught, calls, richVars, mdVars, pageVars>>

\* await transcriptService.getTranscript(youtube_url) is started (line 43).
HookTranscriptCall ==
    /\ hpc = "handler"
    /\ req.youtube_url
    /\ calls' = Append(calls, "transcript")
    /\ hpc' = "await transcript"
    /\ UNCHANGED <<cfgVars, req, handled, transcript, howToContent, notionResponse,
                   caught, responses, richVars, mdVars, pageVars>>

\* It resolves, and generateHowTo is awaited (line 47), or it rejects.
HookTranscriptDone ==
    /\ hpc = "await transcript"
    /\ \E ok \in BOOLEAN :
          IF ok
          THEN /\ transcript' = TRUE
               /\ calls' = Append(calls, "gemini")
               /\ hpc' = "await gemini"
               /\ UNCHANGED caught
          ELSE /\ caught' = "transcript"
               /\ hpc' = "catch"
               /\ UNCHANGED <<transcript, calls>>
    /\ UNCHANGED <<cfgVars, req, handled, howToContent, notionResponse,
                   responses, richVars, mdVars, pageVars>>

\* A faulty variant of HookGenerateDone: createPage is called whether or not
\* generateHowTo succeeded.
HookGenerateDoneUnchecked ==
    /\ hpc = "await gemini"
    /\ \E ok \in BOOLEAN :
          /\ howToContent' = ok
          /\ caught' = IF ok THEN "none" ELSE "gemini"
          /\ calls' = Append(calls, "notion")
          /\ hpc' = "await notion"
    /\ UNCHANGED <<cfgVars, req, handled, transcript, notionResponse,
                   responses, richVars, mdVars, pageVars>>

\* generateHowTo resolves: the parent is settled and createPage awaited
\* (lines 51-60); or it rejects; or no parent id is known (line 57).
HookGenerateDone ==
    /\ hpc = "await gemini"
    /\ \E ok \in BOOLEAN :
          IF ~ok
          THEN /\ caught' = "gemini"
               /\ hpc' = "catch"
               /\ UNCHANGED <<howToContent, calls>>
          ELSE IF ~HasParentId(req, defaultParentId)
          THEN /\ howToContent' = TRUE
               /\ caught' = "no parent"
               /\ hpc' = "catch"
               /\ UNCHANGED calls
          ELSE /\ howToContent' = TRUE
               /\ calls' = Append(calls, "notion")
               /\ hpc' = "await notion"
               /\ UNCHANGED caught
    /\ UNCHANGED <<cfgVars, req, handled, transcript, notionResponse,
                   responses, richVars, mdVars, pageVars>>

\* createPage resolves and 200 is answered (lines 62-68), or it rejects.
HookNotionDone ==
    /\ hpc = "await notion"
    /\ \E ok \in BOOLEAN :
          IF ok
          THEN /\ notionResponse' = TRUE
               /\ responses' = Append(responses,
                                Response(200, [status |-> "ok", page |-> TRUE]))
               /\ hpc' = "done"
                          /\ UNCHANGED caught
          ELSE /\ caught' = "notion"
               /\ hpc' = "catch"
               /\ UNCHANGED <<notionResponse, responses>>
    /\ UNCHANGED <<cfgVars, req, handled, transcript, howToContent, calls,
                   richVars, mdVars, pageVars>>

\* The catch block answers 500 (lines 70-76).
HookCatch ==
    /\ hpc = "catch"
    /\ responses' = Append(responses, Response(500, ErrorBody))
    /\ hpc' = "done"
    /\ UNCHANGED <<cfgVars, req, handled, transcript, howToContent, notionResponse,
                   caught, calls, richVars, mdVars, pageVars>>

NextHook ==
    \/ HookReceive \/ HookAuthNext \/ HookAuthReject \/ HookMissingUrl
    \/ HookTranscriptCall \/ HookTranscriptDone \/ HookGenerateDone
    \/ HookNotionDone \/ HookCatch

SpecHook == InitHook /\ [][NextHook]_vars

\* --------------------------------------------------------------- createPage
Titles == {<<"T">>}

PageDocuments ==
    {Join(ls, <<"\n">>) : ls \in SeqsUpTo(LineSet, MaxPageLines) \ {<<>>}}

\* The parent type in force (line 170): that of parentConfig, else the default.
ParentType(pc) == IF pc = "none" THEN "database" ELSE pc

InitPage ==
    /\ title \in Titles
    /\ contentMarkdown \in PageDocuments
    /\ parentConfig \in {"none", "database", "page"}
    /\ children = <<>> /\ pageTitle = <<>> /\ request = NoPageRequest
    /\ cpc = "call"
    /\ webhookSecret = <<>> /\ defaultParentId \in BOOLEAN /\ req = NoRequest
    /\ hpc = "off" /\ handled = FALSE /\ transcript = FALSE
    /\ howToContent = FALSE /\ notionResponse = FALSE /\ caught = "none"
    /\ calls = <<>> /\ responses = <<>>
    /\ RichIdle
    /\ MdIdle

\* Lines 170-177: without a parent id createPage throws.
PageCall ==
    /\ cpc = "call"
    /\ cpc' = IF parentConfig /= "none" \/ defaultParentId THEN "blocks" ELSE "thrown"
    /\ UNCHANGED <<title, contentMarkdown, parentConfig, children, pageTitle, request,
                   richVars, mdVars, hookVars>>

\* Lines 179-190: the blocks, the title, the heading taken out of the body.
PageBlocks ==
    /\ cpc = "blocks"
    /\ LET p == Promoted(title, contentMarkdown, markdownToBlocks(contentMarkdown))
       IN /\ pageTitle' = p.pageTitle
          /\ children' = p.children
    /\ cpc' = "send"
    /\ UNCHANGED <<title, contentMarkdown, parentConfig, request,
                   richVars, mdVars, hookVars>>

\* Lines 193-228: the request to notion.pages.create.
PageSend ==
    /\ cpc = "send"
    /\ request' =
          [sent |-> TRUE,
           parent |-> IF ParentType(parentConfig) = "database"
                      THEN "database_id" ELSE "page_id",
           titleProperty |-> IF ParentType(parentConfig) = "database"
                             THEN "Name" ELSE "title",
           title |-> pageTitle,
           children |-> children]
    /\ cpc' = "await"
    /\ UNCHANGED <<title, contentMarkdown, parentConfig, children, pageTitle,
                   richVars, mdVars, hookVars>>

\* Lines 230-244: the id and url are returned, or the error is thrown on.
PageDone ==
    /\ cpc = "await"
    /\ \E ok \in BOOLEAN : cpc' = IF ok THEN "returned" ELSE "thrown"
    /\ UNCHANGED <<title, contentMarkdown, parentConfig, children, pageTitle, request,
                   richVars, mdVars, hookVars>>

NextPage == PageCall \/ PageBlocks \/ PageSend \/ PageDone

SpecPage == InitPage /\ [][NextPage]_vars

\* ------------------------------------------------------ what the claims say
\* A fence-marker line: its trimmed text starts with three backticks.
FenceMarker(line) == StartsWith(Trim(line), Fence)

NonBlank(line) == Trim(line) /= <<>>

IsCode(b) == b.type = "code"

CodeBlocks(bs) == SelectSeq(bs, IsCode)

\* The lines read so far.
Scanned == IF mpc = "done" THEN lines ELSE SubSeq(lines, 1, pos - 1)

\* The fence-marker lines among the first n lines.
FencesBefore(n) == Cardinality({j \in 1..n : FenceMarker(lines[j])})

NumFences == FencesBefore(Len(lines))

\* The positions of the fence-marker lines, in order.
RECURSIVE FencePositions(_)
FencePositions(n) ==
    IF n = 0 THEN <<>>
    ELSE IF FenceMarker(lines[n]) THEN Append(FencePositions(n - 1), n)
    ELSE FencePositions(n - 1)

\* Line i lies between an opening fence and what follows it.
InsideFences(i) == ~FenceMarker(lines[i]) /\ FencesBefore(i - 1) % 2 = 1

\* C1: in a document without fence-marker lines there is one block for each
\* non-blank line, the k-th block being the block of the k-th non-blank line;
\* this holds of the lines read so far at every point of the scan.
C1_OneBlockPerNonBlankLine ==
    (mpc \in {"loop", "done"} /\ \A i \in 1..Len(lines) : ~FenceMarker(lines[i]))
    => LET kept == SelectSeq(Scanned, NonBlank)
           out == IF mpc = "done" THEN result ELSE blocks
       IN /\ Len(out) = Len(kept)
          /\ \A k \in 1..Len(kept) : out[k] = LineBlock(Trim(kept[k]))

\* C1's case: a finished fence-free document with blank lines among lines
\* that gave blocks.
C1_Witness ==
    /\ mpc = "done"
    /\ \A i \in 1..Len(lines) : ~FenceMarker(lines[i])
    /\ Len(lines) = 4
    /\ Len(result) = 2
    /\ NonBlank(lines[1]) /\ ~NonBlank(lines[2]) /\ ~NonBlank(lines[3])
    /\ result[2].type = "quote"

\* C2: with an even number N of fence-marker lines, the result holds N/2 code
\* blocks, and its other blocks are as many as the non-blank lines outside
\* the fence pairs: a line between two fences gives no block of its own.
C2_FenceBalance ==
    (mpc = "done" /\ NumFences % 2 = 0)
    => /\ Len(CodeBlocks(result)) = NumFences \div 2
       /\ Len(result) - Len(CodeBlocks(result)) =
             Cardinality({i \in 1..Len(lines) :
                 ~FenceMarker(lines[i]) /\ ~InsideFences(i) /\ NonBlank(lines[i])})

\* C2's case: a heading line between two fences, and a block before them.
C2_Witness ==
    /\ mpc = "done"
    /\ NumFences = 2
    /\ Len(lines) = 4
    /\ InsideFences(3) /\ lines[3] = <<"#", " ", "a">>
    /\ Len(result) = 2
    /\ result[2].type = "code"

\* The tag after the three backticks of a fence line, trimmed.
TagOf(line) == Trim(Substring(Trim(line), 3))

\* C3 as claimed: the language of the k-th code block is the tag of its
\* opening fence (the (2k-1)-th fence-marker line), unchanged, "plain text"
\* for an empty tag.
C3_TagUnchanged ==
    mpc \in {"loop", "done"}
    => \A k \in 1..Len(CodeBlocks(blocks)) :
          LET tag == TagOf(lines[FencePositions(Len(lines))[2 * k - 1]])
          IN CodeBlocks(blocks)[k].language = IF tag = <<>> THEN PlainText ELSE tag

\* C3, amended: the language of the k-th code block is the tag of its opening
\* fence in lower case, "plain text" for an empty tag; the closing fence line
\* plays no part.
C3_TagLowerCased ==
    mpc \in {"loop", "done"}
    => \A k \in 1..Len(CodeBlocks(blocks)) :
          LET tag == TagOf(lines[FencePositions(Len(lines))[2 * k - 1]])
          IN CodeBlocks(blocks)[k].language =
                IF tag = <<>> THEN PlainText ELSE ToLowerCase(tag)

\* C3's case: two code blocks, the first opened without a tag and closed by a
\* fence line carrying one, the second opened by that tagged line.
C3_Witness ==
    /\ mpc = "done"
    /\ Len(lines) = 4
    /\ \A i \in 1..4 : FenceMarker(lines[i])
    /\ TagOf(lines[1]) = <<>> /\ TagOf(lines[2]) = <<"P">>
    /\ TagOf(lines[3]) = <<"P">> /\ TagOf(lines[4]) = <<>>
    /\ Len(result) = 2
    /\ result[1].language = PlainText
    /\ result[2].language = <<"p">>

\* The rules of the priority list, in order: the first whose prefix the
\* trimmed line starts with names the kind.
PrefixRules ==
    << [prefix |-> <<"#", " ">>, kind |-> "heading_1"],
       [prefix |-> <<"#", "#", " ">>, kind |-> "heading_2"],
       [prefix |-> <<"#", "#", "#", " ">>, kind |-> "heading_3"],
       [prefix |-> <<"-", " ">>, kind |-> "bulleted_list_item"] >>

HasNumberedPrefix(t) ==
    \E d \in 1..Len(t) :
        /\ \A j \in 1..d : IsDigit(t[j])
        /\ Len(t) >= d + 2 /\ t[d + 1] = "." /\ IsWs(t[d + 2])

KindOf(t) ==
    LET hits == {r \in 1..Len(PrefixRules) : StartsWith(t, PrefixRules[r].prefix)}
    IN IF hits /= {}
       THEN PrefixRules[CHOOSE r \in hits : \A q \in hits : r <= q].kind
       ELSE IF HasNumberedPrefix(t) THEN "numbered_list_item"
       ELSE IF StartsWith(t, <<">", " ">>) THEN "quote"
       ELSE "paragraph"

\* C7: outside a code block, reading a non-blank line that is no fence adds
\* exactly one block to the blocks emitted so far, of the kind the priority
\* list gives for that line alone.
C7_LineLocalKind ==
    [][ ( /\ InLoop
          /\ ~inCodeBlock
          /\ ~FenceMarker(lines[pos])
          /\ NonBlank(lines[pos]) )
        => /\ Len(blocks') = Len(blocks) + 1
           /\ SubSeq(blocks', 1, Len(blocks)) = blocks
           /\ blocks'[Len(blocks')].type = KindOf(Trim(lines[pos])) ]_vars

\* C7's case: two numbered lines in a row stay two blocks, and a line of
\* another kind after them is classified on its own.
C7_Witness ==
    /\ mpc = "loop"
    /\ Len(blocks) = 3
    /\ blocks[1].type = "numbered_list_item"
    /\ blocks[2].type = "numbered_list_item"
    /\ blocks[3].type = "heading_3"

\* C8: from an opening fence on, as long as the code block stays open, the
\* blocks emitted stay as they were; when the document ends inside the code
\* block (an odd number of fence-marker lines) exactly these blocks are
\* returned, with one code block for each closed pair of fences only.
C8_UnterminatedDropped ==
    [][ /\ (mpc = "loop" /\ inCodeBlock') => blocks' = blocks
        /\ (mpc = "loop" /\ mpc' = "done" /\ NumFences % 2 = 1)
              => /\ inCodeBlock
                 /\ result' = blocks
                 /\ Len(CodeBlocks(result')) = (NumFences - 1) \div 2 ]_vars

\* C8's case: a block, an opening fence and a buffered line, then the end.
C8_Witness ==
    /\ mpc = "done"
    /\ inCodeBlock
    /\ codeBlockContent /= <<>>
    /\ Len(result) = 1
    /\ FenceMarker(lines[2])

\* ------------------------------------------------ claims on parseRichText
\* An empty-payload match kept literally: two asterisks, or two backticks.
EmptyLiterals == {StarStar, <<BT, BT>>}

\* C4 as claimed: no two adjacent runs of the result have the same style.
C4_NoAdjacentSameStyle ==
    rpc = "done"
    => \A i \in 1..(Len(richText) - 1) : richText[i].style /= richText[i + 1].style

\* C4, amended: two adjacent runs have the same style only when both are
\* styled runs (back-to-back delimiter matches) or when one of them is a
\* Plain run holding an empty-payload match kept literally; two runs of
\* unmatched text are never adjacent.
C4_AdjacentOnlyAtMatches ==
    rpc \in {"loop", "done"}
    => \A i \in 1..(Len(richText) - 1) :
          richText[i].style = richText[i + 1].style
          => \/ richText[i].style /= "Plain"
             \/ richText[i].content \in EmptyLiterals
             \/ richText[i + 1].content \in EmptyLiterals

\* C4's case: two matches back to back give two runs of one style.
C4_Witness ==
    /\ rpc = "done"
    /\ text = <<"*", "a", "*", "*", "a", "*">>
    /\ richText = <<Run("Italic", <<"a">>), Run("Italic", <<"a">>)>>

\* The alternative of the regex that matched a captured part.
MatchedDelimiter(part) ==
    regex[CHOOSE k \in 1..Len(regex) :
              /\ Delimited(part, 1, regex[k]) = Len(part)
              /\ \A j \in 1..(k - 1) : Delimited(part, 1, regex[j]) = 0]

\* The parts at even positions are the matches of the regex.
IsMatch(k) == k % 2 = 0

\* C5: a match whose payload is empty is emitted as a Plain run holding the
\* matched text, delimiters included.
C5_EmptyPayloadIsPlain ==
    (rpc = "loop" /\ pidx > 1 /\ IsMatch(pidx - 1)
       /\ Len(parts[pidx - 1]) = 2 * Len(MatchedDelimiter(parts[pidx - 1])))
    => /\ richText /= <<>>
       /\ richText[Len(richText)] = Run("Plain", parts[pidx - 1])

\* Text of the form **X** with X non-empty, free of "**", and with no
\* asterisk at either end of X.
IsBoldForm(t) ==
    /\ Len(t) > 4
    /\ StartsWith(t, StarStar) /\ EndsWith(t, StarStar)
    /\ LET x == SliceBoth(t, 2)
       IN /\ x[1] /= "*" /\ x[Len(x)] /= "*"
          /\ \A i \in 1..(Len(x) - 1) : ~(x[i] = "*" /\ x[i + 1] = "*")

\* C6: a line of the form **X** gives exactly one run, Bold with content X.
C6_BoldBeforeItalic ==
    (rpc = "done" /\ IsBoldForm(text))
    => richText = <<Run("Bold", SliceBoth(text, 2))>>

\* C6's case: **a*a*a**, single asterisks inside the bold span.
C6_Witness ==
    /\ rpc = "done"
    /\ text = <<"*", "*", "a", "*", "a", "*", "a", "*", "*">>
    /\ richText = <<Run("Bold", <<"a", "*", "a", "*", "a">>)>>

\* --------------------------------------------------- claims on the webhook
\* The Authorization header is "Bearer " followed by exactly the secret.
ExactBearer ==
    /\ req.authorization.present
    /\ req.authorization.value = BearerSp \o webhookSecret

\* C9: a request reaches the handler if and only if its Authorization header
\* is "Bearer " followed by exactly the configured secret; any other request
\* is answered 401 and causes no call on the transcript, generation or
\* Notion services.
C9_OnlyExactBearerReachesHandler ==
    (req.present /\ hpc /= "auth")
    => /\ handled <=> ExactBearer
       /\ ~ExactBearer
             => /\ calls = <<>>
                /\ hpc = "done"
                /\ responses = <<Response(401, ErrorBody)>>

Services == <<"transcript", "gemini", "notion">>

\* C10: for an authenticated request carrying youtube_url, the calls made are
\* a prefix of transcript, generation, page creation, each made only once the
\* one before has succeeded; at most one response is ever sent and exactly
\* one once the request is done; it is 200 with status ok and the page only
\* if the page was created, 500 with status error if a step failed; and once
\* a step has failed no further call is made.
C10_StepsInOrderOneResponse ==
    /\ []( (handled /\ req.youtube_url)
           => /\ Len(calls) <= 3 /\ calls = SubSeq(Services, 1, Len(calls))
              /\ Len(calls) >= 2 => transcript
              /\ Len(calls) >= 3 => howToContent
              /\ Len(responses) <= 1
              /\ hpc = "done"
                    => /\ Len(responses) = 1
                       /\ responses[1].status = 200
                             => /\ notionResponse /\ calls = Services
                                /\ responses[1].body = [status |-> "ok", page |-> TRUE]
                       /\ caught /= "none"
                             => responses[1] = Response(500, ErrorBody)
                       /\ caught = "none" => responses[1].status = 200 )
    /\ [][ (handled /\ caught /= "none" /\ hpc' /= "auth") => calls' = calls ]_vars

\* C10's case: all three steps succeeded and 200 was answered.
C10_Witness ==
    /\ hpc = "done"
    /\ handled /\ req.youtube_url
    /\ calls = Services
    /\ transcript /\ howToContent /\ notionResponse
    /\ responses = <<Response(200, [status |-> "ok", page |-> TRUE])>>

\* ------------------------------------------------- claims on the prefixes
\* The number of digits a trimmed line begins with.
LeadingDigits(t) ==
    CHOOSE d \in 0..Len(t) :
        /\ \A j \in 1..d : IsDigit(t[j])
        /\ d = Len(t) \/ ~IsDigit(t[d + 1])

\* No rule before the numbered one matches the trimmed line.
NoEarlierRule(t) == \A r \in 1..Len(PrefixRules) : ~StartsWith(t, PrefixRules[r].prefix)

\* The trimmed line begins with digits, a period and a character of seps.
BeginsNumbered(t, seps) ==
    LET d == LeadingDigits(t)
    IN d >= 1 /\ Len(t) >= d + 2 /\ t[d + 1] = "." /\ t[d + 2] \in seps

\* A line read outside a code block that no earlier rule matches gives a
\* numbered item exactly when it begins with digits, a period and a character
\* of seps; the runs of the item are those of the text after that character.
NumberedExactly(seps) ==
    LET t == Trim(lines[pos])
        d == LeadingDigits(t)
        last == blocks'[Len(blocks')]
    IN ( /\ InLoop
         /\ ~inCodeBlock
         /\ ~FenceMarker(lines[pos])
         /\ NonBlank(lines[pos])
         /\ NoEarlierRule(t) )
       => /\ Len(blocks') = Len(blocks) + 1
          /\ last.type = "numbered_list_item" <=> BeginsNumbered(t, seps)
          /\ BeginsNumbered(t, seps)
                => last.rich_text = parseRichText(SubSeq(t, d + 3, Len(t)))

\* C11 as claimed: the character after the period is a space.
C11_NumberedBySpace == [][NumberedExactly({" "})]_vars

\* C11, amended: the character after the period is any one white-space
\* character (a space or a tab); the prefix stripped is the digits, the
\* period and that one character.
C11_NumberedByWhiteSpace == [][NumberedExactly({" ", "\t", "\r", "\n"})]_vars

\* C11's case: the Settings line gives a numbered item of three runs, and a
\* line numbered with a tab after it gives a numbered item too.
C11_Witness ==
    /\ mpc = "loop"
    /\ Len(lines) = 3
    /\ lines[1] = SettingsLine
    /\ lines[2] = <<"1", ".", "\t", "a">>
    /\ lines[3] = <<"1", "2", ".", " ", "a">>
    /\ blocks =
         << Block("numbered_list_item",
                  << Run("Plain", <<"O", "p", "e", "n", " ", "t", "h", "e", " ">>),
                     Run("Bold", <<"S", "e", "t", "t", "i", "n", "g", "s">>),
                     Run("Plain", <<" ", "m", "e", "n", "u">>) >>),
            Block("numbered_list_item", <<Run("Plain", <<"a">>)>>),
            Block("numbered_list_item", <<Run("Plain", <<"a">>)>>) >>

\* --------------------------------------------- claims on the code content
\* C12: the content of the k-th code block is the lines strictly between the
\* (2k-1)-th and the 2k-th fence-marker line, each as it was read, joined by
\* line breaks: neither fence line, and no line of an earlier code block, is
\* part of it.
C12_ContentBetweenOwnFences ==
    mpc \in {"loop", "done"}
    => \A k \in 1..Len(CodeBlocks(blocks)) :
          LET fp == FencePositions(Len(lines))
              between == SubSeq(lines, fp[2 * k - 1] + 1, fp[2 * k] - 1)
          IN CodeBlocks(blocks)[k].rich_text = Literal(Join(between, <<"\n">>))

\* C12's case: a first code block of an untrimmed line and a blank line,
\* then a second one of a single other line.
C12_Witness ==
    /\ mpc = "done"
    /\ Len(lines) = 7
    /\ Len(result) = 2
    /\ IsCode(result[1]) /\ IsCode(result[2])
    /\ result[1].rich_text = Literal(<<" ", "a", " ", "\n">>)
    /\ result[2].rich_text = Literal(<<"#", " ", "b">>)

\* ---------------------------------------------------- claims on createPage
\* C13: in the request sent to Notion, when the first line of the markdown,
\* trimmed, starts with "# ", the title is that line's text after the prefix
\* and the children are all blocks of markdownToBlocks but the first, which
\* is the heading_1 of that line; otherwise the title is the title argument
\* and the children are all blocks of markdownToBlocks, in order.
C13_OnlyLeadingHeadingPromoted ==
    request.sent
    => LET all == markdownToBlocks(contentMarkdown)
           first == Trim(SplitOn(contentMarkdown, "\n")[1])
       IN IF StartsWith(first, <<"#", " ">>)
          THEN /\ request.title = Substring(first, 2)
               /\ all /= <<>>
               /\ all[1] = Block("heading_1", Literal(Substring(first, 2)))
               /\ request.children = Tail(all)
          ELSE /\ request.title = title
               /\ request.children = all

\* C13's case: the first line is a heading and so is the second; only the
\* first is taken out of the body.
C13_Witness ==
    /\ request.sent
    /\ SplitOn(contentMarkdown, "\n") =
          << <<"#", " ", "a">>, <<"#", " ", "a">>, <<">", " ", "a">> >>
    /\ request.title = <<"a">>
    /\ Len(request.children) = 2
    /\ request.children[1].type = "heading_1"
    /\ request.children[2].type = "quote"

\* ------------------------------------------------- claims on runs of text
NonEmptyRuns(rt) == \A i \in 1..Len(rt) : rt[i].content /= <<>>

CarriesRuns(bs) ==
    \A i \in 1..Len(bs) :
        ~IsCode(bs[i]) => bs[i].rich_text /= <<>> /\ NonEmptyRuns(bs[i].rich_text)

\* C14: no run of parseRichText has empty content, while it runs and as it
\* returns, and every block of markdownToBlocks that is not a code block
\* carries at least one run, none of them empty.
C14_NoZeroLengthRun ==
    /\ NonEmptyRuns(richText)
    /\ CarriesRuns(blocks)
    /\ CarriesRuns(result)

\* C14's case: a bullet whose text is four stars, and a bullet prefix with
\* nothing after it, which the trim turns into a paragraph.
C14_Witness ==
    /\ mpc = "done"
    /\ lines = << <<"-", " ", "*", "*", "*", "*">>, <<"-", " ">> >>
    /\ result = << Block("bulleted_list_item", <<Run("Italic", <<"*", "*">>)>>),
                   Block("paragraph", <<Run("Plain", <<"-">>)>>) >>

====
